---- MODULE Spec2Model ----
(***************************************************************************)
(* Crypto market-data pipeline: fetch / generate -> validate -> store.     *)
(*                                                                         *)
(* Python values are tagged triples [t, s, n]:                             *)
(*   t = "str"    s is the string, a sequence of one-character strings     *)
(*   t = "int"    n is the integer (also an integral float such as 5.0)    *)
(*   t = "float"  the number n + 0.5 (a float with a fractional part)      *)
(*   t = "dict"   a nested mapping (roi); n tells two mappings apart       *)
(*   t = "None"   Python None                                              *)
(*   t = "nan"    pandas' missing-value marker (NaN / NaT)                 *)
(*   t = "null"   SQL NULL                                                 *)
(* A Python dict is the sequence of its [k, v] items in insertion order.   *)
(***************************************************************************)
EXTENDS Integers, Sequences, FiniteSets, TLC

\* ---------------------------------------------------------------- values

PyStr(chars) == [t |-> "str", s |-> chars, n |-> 0]

PyInt(k) == [t |-> "int", s |-> <<>>, n |-> k]

PyFloat(k) == [t |-> "float", s |-> <<>>, n |-> k]

PyDict(k) == [t |-> "dict", s |-> <<>>, n |-> k]

None == [t |-> "None", s |-> <<>>, n |-> 0]

NaN == [t |-> "nan", s |-> <<>>, n |-> 0]

NULL == [t |-> "null", s |-> <<>>, n |-> 0]

EmptyStr == PyStr(<<>>)

IsNumber(v) == v.t \in {"int", "float"}

\* v < 0 for a number: n + 0.5 < 0 exactly when n < 0
Negative(v) == v.n < 0

\* v <= 0 for a number: n + 0.5 <= 0 exactly when n < 0
NonPositive(v) == IF v.t = "float" THEN v.n < 0 ELSE v.n <= 0

\* abs(v) > limit for a number: |n + 0.5| > limit
AbsGreater(v, limit) ==
    IF v.t = "float"
    THEN v.n >= limit \/ v.n <= -limit - 1
    ELSE v.n > limit \/ v.n < -limit

\* ------------------------------------------------------------ Python dict

Keys(d) == {d[j].k : j \in 1..Len(d)}

Has(d, key) == key \in Keys(d)

Get(d, key) == d[CHOOSE j \in 1..Len(d) : d[j].k = key].v

\* d[key] = v: an existing key keeps its position, a new key goes last
SetItem(d, key, v) ==
    IF Has(d, key)
    THEN [j \in 1..Len(d) |-> IF d[j].k = key THEN [k |-> key, v |-> v] ELSE d[j]]
    ELSE Append(d, [k |-> key, v |-> v])

DelItem(d, key) == SelectSeq(d, LAMBDA item : item.k # key)

\* ------------------------------------------------------ models.CryptoPrice

\* The fields of CryptoPrice in declaration order: name, annotation, required
CryptoPriceFields == <<
    [name |-> "id", kind |-> "str", required |-> TRUE],
    [name |-> "symbol", kind |-> "str", required |-> TRUE],
    [name |-> "name", kind |-> "str", required |-> TRUE],
    [name |-> "image", kind |-> "str", required |-> TRUE],
    [name |-> "current_price", kind |-> "float", required |-> TRUE],
    [name |-> "market_cap", kind |-> "int", required |-> TRUE],
    [name |-> "market_cap_rank", kind |-> "int", required |-> TRUE],
    [name |-> "fully_diluted_valuation", kind |-> "int", required |-> FALSE],
    [name |-> "total_volume", kind |-> "int", required |-> TRUE],
    [name |-> "high_24h", kind |-> "float", required |-> TRUE],
    [name |-> "low_24h", kind |-> "float", required |-> TRUE],
    [name |-> "price_change_24h", kind |-> "float", required |-> TRUE],
    [name |-> "price_change_percentage_24h", kind |-> "float", required |-> TRUE],
    [name |-> "market_cap_change_24h", kind |-> "float", required |-> TRUE],
    [name |-> "market_cap_change_percentage_24h", kind |-> "float", required |-> TRUE],
    [name |-> "circulating_supply", kind |-> "float", required |-> TRUE],
    [name |-> "total_supply", kind |-> "float", required |-> FALSE],
    [name |-> "max_supply", kind |-> "float", required |-> FALSE],
    [name |-> "ath", kind |-> "float", required |-> TRUE],
    [name |-> "ath_change_percentage", kind |-> "float", required |-> TRUE],
    [name |-> "ath_date", kind |-> "str", required |-> TRUE],
    [name |-> "atl", kind |-> "float", required |-> TRUE],
    [name |-> "atl_change_percentage", kind |-> "float", required |-> TRUE],
    [name |-> "atl_date", kind |-> "str", required |-> TRUE],
    [name |-> "roi", kind |-> "dict", required |-> FALSE],
    [name |-> "last_updated", kind |-> "str", required |-> TRUE],
    [name |-> "fetched_at", kind |-> "str", required |-> FALSE] >>

LowerAlnum ==
    {"a", "b", "c", "d", "e", "f", "g", "h", "i", "j", "k", "l", "m",
     "n", "o", "p", "q", "r", "s", "t", "u", "v", "w", "x", "y", "z",
     "0", "1", "2", "3", "4", "5", "6", "7", "8", "9"}

AllIn(chars, class) == \A j \in 1..Len(chars) : chars[j] \in class

\* re.match(r'^[a-z0-9]+$', v): in Python "$" also matches just before a
\* newline that ends the string
SymbolPattern(chars) ==
    \/ Len(chars) > 0 /\ AllIn(chars, LowerAlnum)
    \/ /\ Len(chars) > 1
       /\ chars[Len(chars)] = "\n"
       /\ AllIn(SubSeq(chars, 1, Len(chars) - 1), LowerAlnum)

\* validate_symbol: the message of the ValueError, or "" when v passes
validate_symbol(v) ==
    IF ~SymbolPattern(v.s) THEN "Value error, Symbol must be lowercase alphanumeric" ELSE ""

validate_positive_values(v) ==
    IF Negative(v) THEN "Value error, Price and volume values must be positive" ELSE ""

\* validate_rank with no comparison at all
validate_rank_Unchecked(v) == ""

\* validate_rank with the comparison v < 0
validate_rank_AllowsZero(v) ==
    IF Negative(v) THEN "Value error, Market cap rank must be positive" ELSE ""

validate_rank(v) ==
    IF NonPositive(v) THEN "Value error, Market cap rank must be positive" ELSE ""

PercentLimit == 1000

\* validate_percentage with the comparison abs(v) >= 1000
validate_percentage_RejectsLimit(v) ==
    IF AbsGreater(v, PercentLimit) \/ v \in {PyInt(PercentLimit), PyInt(-PercentLimit)}
    THEN "Value error, Percentage change seems unreasonable" ELSE ""

validate_percentage(v) ==
    IF AbsGreater(v, PercentLimit) THEN "Value error, Percentage change seems unreasonable" ELSE ""

\* The type step of a field (pydantic, lax mode): the message of the type
\* error, or "" when the value is of the annotated type
TypeError(kind, v) ==
    CASE kind = "str" -> IF v.t = "str" THEN "" ELSE "Input should be a valid string"
      [] kind = "float" -> IF IsNumber(v) THEN "" ELSE "Input should be a valid number"
      [] kind = "int" ->
            IF v.t = "int" THEN ""
            ELSE IF v.t = "float"
                 THEN "Input should be a valid integer, got a number with a fractional part"
                 ELSE "Input should be a valid integer"
      [] kind = "dict" -> IF v.t = "dict" THEN "" ELSE "Input should be a valid dictionary"

\* The field_validator registered for a field, run after the type step
FieldValidator(name, v) ==
    CASE name = "symbol" -> validate_symbol(v)
      [] name \in {"current_price", "market_cap", "total_volume", "high_24h", "low_24h"} ->
            validate_positive_values(v)
      [] name = "market_cap_rank" -> validate_rank(v)
      [] name \in {"price_change_percentage_24h", "market_cap_change_percentage_24h"} ->
            validate_percentage(v)
      [] OTHER -> ""

\* The errors of one field: at most one entry [field, input, msg]
FieldErrors(f, record) ==
    IF ~Has(record, f.name)
    THEN IF f.required
         THEN << [field |-> f.name, input |-> PyDict(Len(record)), msg |-> "Field required"] >>
         ELSE << >>
    ELSE LET v == Get(record, f.name) IN
         IF v.t = "None" /\ ~f.required THEN << >>
         ELSE IF TypeError(f.kind, v) # ""
              THEN << [field |-> f.name, input |-> v, msg |-> TypeError(f.kind, v)] >>
              ELSE IF FieldValidator(f.name, v) # ""
                   THEN << [field |-> f.name, input |-> v, msg |-> FieldValidator(f.name, v)] >>
                   ELSE << >>

RECURSIVE ErrorsFrom(_, _)
ErrorsFrom(j, record) ==
    IF j > Len(CryptoPriceFields) THEN << >>
    ELSE FieldErrors(CryptoPriceFields[j], record) \o ErrorsFrom(j + 1, record)

\* model_validate reporting the first error only
model_validate_FirstErrorOnly(record) ==
    IF ErrorsFrom(1, record) = << >> THEN << >> ELSE << ErrorsFrom(1, record)[1] >>

\* CryptoPrice.model_validate(record): the errors of the ValidationError, in
\* field order; << >> when the record is accepted. Keys that are no field of
\* the model are ignored (extra = "ignore").
model_validate(record) == ErrorsFrom(1, record)

Accepted(record) == model_validate(record) = << >>

\* validate_crypto_data(data): CryptoPrice(**record) for every record; TRUE
\* when no record raises
validate_crypto_data(data) == \A j \in 1..Len(data) : Accepted(data[j])

\* ------------------------------------------------------- sample records
\* A timestamp string is <<date, "T", time>>, optionally followed by
\* <<".", fraction>> and by <<"Z">>; the date, the time and the fraction are
\* one token each.

DateTokens == {"2019-06-01", "2021-11-10", "2024-05-01", "2024-05-02"}

TimeTokens == {"14:24:11"}

FracTokens == {"849"}

IsoZ(date) == PyStr(<<date, "T", "14:24:11", "Z">>)

IsoMicro(date) == PyStr(<<date, "T", "14:24:11", ".", "849">>)

\* The key order of a record of either source: the generator's dict literal,
\* which is the order of the CoinGecko payload with fetched_at added last
SourceKeys == <<
    "id", "symbol", "name", "image", "current_price", "market_cap",
    "market_cap_rank", "fully_diluted_valuation", "total_volume", "high_24h",
    "low_24h", "price_change_24h", "price_change_percentage_24h",
    "market_cap_change_24h", "market_cap_change_percentage_24h",
    "circulating_supply", "total_supply", "max_supply", "ath",
    "ath_change_percentage", "ath_date", "atl", "atl_change_percentage",
    "atl_date", "roi", "last_updated", "fetched_at" >>

OptionalKeys == {"fully_diluted_valuation", "total_supply", "max_supply", "roi"}

\* A well-formed value for every key, as the generator computes them
\* (rank is the record's position in the batch)
WellFormedValue(key, rank) ==
    CASE key \in {"id", "symbol"} -> PyStr(<<"b", "t", "c">>)
      [] key = "name" -> PyStr(<<"B", "i", "t">>)
      [] key = "image" -> PyStr(<<"h", "t", "t", "p">>)
      [] key = "current_price" -> PyFloat(100)
      [] key = "market_cap" -> PyInt(5000)
      [] key = "market_cap_rank" -> PyInt(rank)
      [] key = "fully_diluted_valuation" -> PyInt(5500)
      [] key = "total_volume" -> PyInt(300)
      [] key = "high_24h" -> PyFloat(101)
      [] key = "low_24h" -> PyFloat(98)
      [] key = "price_change_24h" -> PyFloat(-4)
      [] key = "price_change_percentage_24h" -> PyFloat(-3)
      [] key = "market_cap_change_24h" -> PyFloat(-150)
      [] key = "market_cap_change_percentage_24h" -> PyFloat(-3)
      [] key = "circulating_supply" -> PyFloat(50)
      [] key = "total_supply" -> PyFloat(60)
      [] key = "max_supply" -> PyFloat(70)
      [] key = "ath" -> PyFloat(200)
      [] key = "ath_change_percentage" -> PyFloat(-50)
      [] key = "ath_date" -> IsoZ("2021-11-10")
      [] key = "atl" -> PyFloat(10)
      [] key = "atl_change_percentage" -> PyFloat(900)
      [] key = "atl_date" -> IsoZ("2019-06-01")
      [] key = "roi" -> PyDict(1)
      [] key = "last_updated" -> IsoZ("2024-05-01")
      [] key = "fetched_at" -> IsoMicro("2024-05-02")

RECURSIVE BuildRecord(_, _, _, _)
BuildRecord(keys, j, rank, absent) ==
    IF j > Len(keys) THEN << >>
    ELSE (IF keys[j] \in absent THEN << >>
          ELSE << [k |-> keys[j], v |-> WellFormedValue(keys[j], rank)] >>)
         \o BuildRecord(keys, j + 1, rank, absent)

\* One record of the CoinGecko payload: every key of the endpoint, before
\* fetch_crypto_data adds fetched_at
PayloadRecord == BuildRecord(SourceKeys, 1, 1, {"fetched_at"})

\* The records the upstream API may answer with
LivePool == {
    SetItem(PayloadRecord, "roi", None),
    SetItem(PayloadRecord, "market_cap_rank", PyInt(-1)),
    SetItem(SetItem(PayloadRecord, "symbol", PyStr(<<"B", "T", "C">>)),
            "market_cap_rank", PyInt(0)),
    SetItem(PayloadRecord, "current_price", PyInt(-5)),
    SetItem(PayloadRecord, "price_change_percentage_1h_in_currency", PyFloat(0)) }

\* The largest payload the model lets the API answer with
MaxBatch == 2

RECURSIVE SeqsUpTo(_, _)
SeqsUpTo(S, len) ==
    IF len = 0 THEN {<< >>}
    ELSE LET shorter == SeqsUpTo(S, len - 1) IN
         shorter \cup {Append(q, x) : q \in {p \in shorter : Len(p) = len - 1}, x \in S}

Payloads == SeqsUpTo(LivePool, MaxBatch)

\* ------------------------------------------------ assets.fetch_crypto_data

LegacyRequiredFields == {"id", "symbol", "name", "current_price", "market_cap"}

\* validate_crypto_data_legacy(data): "True", "False", or "TypeError" when
\* the comparison current_price <= 0 is applied to a value that is no number
validate_crypto_data_legacy(data) ==
    IF data = << >> THEN "False"
    ELSE LET bad(j) == \/ ~(LegacyRequiredFields \subseteq Keys(data[j]))
                       \/ (IsNumber(Get(data[j], "current_price"))
                           /\ NonPositive(Get(data[j], "current_price")))
             raises(j) == /\ LegacyRequiredFields \subseteq Keys(data[j])
                          /\ ~IsNumber(Get(data[j], "current_price"))
             first == CHOOSE j \in 1..Len(data) :
                          /\ bad(j) \/ raises(j)
                          /\ \A h \in 1..(j - 1) : ~bad(h) /\ ~raises(h)
         IN IF \A j \in 1..Len(data) : ~bad(j) /\ ~raises(j) THEN "True"
            ELSE IF raises(first) THEN "TypeError" ELSE "False"

\* The sample line of the log: .upper() of the symbol and the ":,.2f" format
\* of the price of data[0] raise on a value of another type
SampleLogRaises(data) ==
    /\ data # << >>
    /\ \/ Has(data[1], "symbol") /\ Get(data[1], "symbol").t # "str"
       \/ Has(data[1], "current_price") /\ ~IsNumber(Get(data[1], "current_price"))

\* The outcome of fetch_crypto_data once the request has returned data:
\* the error raised, or "" with the data returned
FetchOutcome(data) ==
    IF ~validate_crypto_data(data) /\ validate_crypto_data_legacy(data) = "False"
    THEN "ValueError"
    ELSE IF ~validate_crypto_data(data) /\ validate_crypto_data_legacy(data) = "TypeError"
         THEN "TypeError"
         ELSE IF SampleLogRaises(data) THEN "TypeError" ELSE ""

\* entry['fetched_at'] = datetime.now().isoformat() for every entry
AddFetchedAt(data) ==
    [j \in 1..Len(data) |-> SetItem(data[j], "fetched_at", IsoMicro("2024-05-02"))]

\* --------------------------------------- assets.generate_test_crypto_data

\* The number of records the generator makes (10 in the source)
GenCount == 2

\* The optional keys a generated record may come without: each of the four
\* is dropped when its random draw makes it None
AbsentChoices == {{}, {"roi"}, OptionalKeys}

\* The batches the generator can return: record j has rank j and lacks the
\* keys absent[j]
SyntheticBatch(absent) ==
    [j \in 1..GenCount |-> BuildRecord(SourceKeys, 1, j, absent[j])]

SyntheticBatches == {SyntheticBatch(absent) : absent \in [1..GenCount -> AbsentChoices]}

\* ------------------------------------------------------ pandas DataFrame
\* A DataFrame is [columns, rows]: the column names in order and, for every
\* record, the cells in column order.

RECURSIVE NewKeys(_, _, _)
NewKeys(d, j, seen) ==
    IF j > Len(d) THEN << >>
    ELSE IF d[j].k \in seen THEN NewKeys(d, j + 1, seen)
         ELSE << d[j].k >> \o NewKeys(d, j + 1, seen)

Range(q) == {q[j] : j \in 1..Len(q)}

\* The columns of pd.DataFrame(list of dicts): the keys in the order of
\* their first appearance over the records
RECURSIVE UnionKeys(_, _, _)
UnionKeys(records, j, acc) ==
    IF j > Len(records) THEN acc
    ELSE UnionKeys(records, j + 1, acc \o NewKeys(records[j], 1, Range(acc)))

\* pd.DataFrame(records): a key a record lacks is a missing cell
DataFrame(records) ==
    LET cols == UnionKeys(records, 1, << >>) IN
    [columns |-> cols,
     rows |-> [j \in 1..Len(records) |->
                 [p \in 1..Len(cols) |->
                    IF Has(records[j], cols[p]) THEN Get(records[j], cols[p]) ELSE NaN]]]

\* The dtype pandas infers for column p
Dtype(df, p) ==
    LET cells == {df.rows[j][p] : j \in 1..Len(df.rows)} IN
    IF \E v \in cells : v.t \in {"str", "dict"} THEN "object"
    ELSE IF \A v \in cells : v.t \in {"None", "nan"} THEN "object"
         ELSE IF \A v \in cells : v.t = "int" THEN "int64" ELSE "float64"

\* df[col].fillna('') on the object columns; in a numeric column None is
\* held as NaN
FillObjectColumns(df) ==
    [df EXCEPT !.rows =
        [j \in 1..Len(df.rows) |->
           [p \in 1..Len(df.columns) |->
              IF df.rows[j][p].t \in {"None", "nan"}
              THEN IF Dtype(df, p) = "object" THEN EmptyStr ELSE NaN
              ELSE df.rows[j][p]]]]

\* A string pandas parses as a timestamp
IsTimestamp(chars) ==
    /\ Len(chars) >= 3
    /\ chars[1] \in DateTokens
    /\ chars[2] \in {"T", " "}
    /\ chars[3] \in TimeTokens
    /\ LET rest == SubSeq(chars, 4, Len(chars)) IN
       \/ rest \in {<< >>, <<"Z">>}
       \/ Len(rest) \in {2, 3} /\ rest[1] = "." /\ rest[2] \in FracTokens
          /\ (Len(rest) = 3 => rest[3] = "Z")

\* pd.to_datetime(errors="coerce"), .dt.strftime('%Y-%m-%d %H:%M:%S') and
\* .fillna('') on one cell: the date and the time joined by a blank, or ''
\* for a value that does not parse. A number is read as an epoch offset.
NormalizeDate(v) ==
    IF v.t = "str" /\ IsTimestamp(v.s) THEN PyStr(<<v.s[1], " ", v.s[3]>>)
    ELSE IF IsNumber(v) THEN PyStr(<<"1970-01-01", " ", "00:00:00">>)
         ELSE EmptyStr

datetime_cols == {"ath_date", "atl_date", "last_updated", "fetched_at"}

ConvertDatetimeColumns(df) ==
    [df EXCEPT !.rows =
        [j \in 1..Len(df.rows) |->
           [p \in 1..Len(df.columns) |->
              IF df.columns[p] \in datetime_cols
              THEN NormalizeDate(df.rows[j][p])
              ELSE df.rows[j][p]]]]

\* The DataFrame store_validated_crypto_data hands to DuckDB
PrepareDataFrame(records) == ConvertDatetimeColumns(FillObjectColumns(DataFrame(records)))

\* ----------------------------------------------------------------- DuckDB

\* The columns of CREATE TABLE IF NOT EXISTS validated_crypto_data
TableColumns == <<
    [name |-> "id", type |-> "VARCHAR"],
    [name |-> "symbol", type |-> "VARCHAR"],
    [name |-> "name", type |-> "VARCHAR"],
    [name |-> "image", type |-> "VARCHAR"],
    [name |-> "current_price", type |-> "DOUBLE"],
    [name |-> "market_cap", type |-> "BIGINT"],
    [name |-> "market_cap_rank", type |-> "INTEGER"],
    [name |-> "fully_diluted_valuation", type |-> "DOUBLE"],
    [name |-> "total_volume", type |-> "BIGINT"],
    [name |-> "high_24h", type |-> "DOUBLE"],
    [name |-> "low_24h", type |-> "DOUBLE"],
    [name |-> "price_change_24h", type |-> "DOUBLE"],
    [name |-> "price_change_percentage_24h", type |-> "DOUBLE"],
    [name |-> "market_cap_change_24h", type |-> "DOUBLE"],
    [name |-> "market_cap_change_percentage_24h", type |-> "DOUBLE"],
    [name |-> "circulating_supply", type |-> "DOUBLE"],
    [name |-> "total_supply", type |-> "DOUBLE"],
    [name |-> "max_supply", type |-> "DOUBLE"],
    [name |-> "ath", type |-> "DOUBLE"],
    [name |-> "ath_change_percentage", type |-> "DOUBLE"],
    [name |-> "ath_date", type |-> "VARCHAR"],
    [name |-> "atl", type |-> "DOUBLE"],
    [name |-> "atl_change_percentage", type |-> "DOUBLE"],
    [name |-> "atl_date", type |-> "VARCHAR"],
    [name |-> "last_updated", type |-> "VARCHAR"],
    [name |-> "fetched_at", type |-> "VARCHAR"],
    [name |-> "roi", type |-> "VARCHAR"] >>

DigitChars == <<"0", "1", "2", "3", "4", "5", "6", "7", "8", "9">>

RECURSIVE NatToChars(_)
NatToChars(k) ==
    IF k < 10 THEN << DigitChars[k + 1] >>
    ELSE NatToChars(k \div 10) \o << DigitChars[(k % 10) + 1] >>

\* The text of the number n + 0.5 (half) or n
NumberToChars(k, half) ==
    IF half
    THEN IF k >= 0 THEN NatToChars(k) \o <<".", "5">>
         ELSE <<"-">> \o NatToChars(-k - 1) \o <<".", "5">>
    ELSE IF k >= 0 THEN NatToChars(k) ELSE <<"-">> \o NatToChars(-k)

IsDigits(chars) == Len(chars) > 0 /\ \A j \in 1..Len(chars) : chars[j] \in Range(DigitChars)

RECURSIVE CharsToNat(_)
CharsToNat(chars) ==
    IF chars = << >> THEN 0
    ELSE 10 * CharsToNat(SubSeq(chars, 1, Len(chars) - 1))
         + ((CHOOSE d \in 1..10 : DigitChars[d] = chars[Len(chars)]) - 1)

CastError == [t |-> "error", s |-> <<>>, n |-> 0]

\* The cast DuckDB applies to one cell of the DataFrame for a column of the
\* given type; CastError when the value does not convert. The numbers of the
\* model are inside the range of INTEGER and BIGINT.
Cast(v, type) ==
    CASE v.t \in {"nan", "None", "null"} -> NULL
      [] v.t = "str" ->
            IF type = "VARCHAR" THEN v
            ELSE IF IsDigits(v.s) THEN PyInt(CharsToNat(v.s)) ELSE CastError
      [] v.t = "int" ->
            IF type = "VARCHAR" THEN PyStr(NumberToChars(v.n, FALSE)) ELSE v
      [] v.t = "float" ->
            IF type = "VARCHAR" THEN PyStr(NumberToChars(v.n, TRUE))
            ELSE IF type = "DOUBLE" THEN v
                 ELSE PyInt(IF v.n % 2 = 0 THEN v.n ELSE v.n + 1)
      [] v.t = "dict" ->
            IF type = "VARCHAR" THEN PyStr(<<"{">> \o NumberToChars(v.n, FALSE) \o <<"}">>)
            ELSE CastError
      [] OTHER -> CastError

\* The rows of "SELECT * FROM df" cast to the table's columns by position
CastRows(df) ==
    [j \in 1..Len(df.rows) |->
       [p \in 1..Len(TableColumns) |-> Cast(df.rows[j][p], TableColumns[p].type)]]

\* InsertInto keeping the rows of a statement that raises on a conversion,
\* the cells that do not convert as NULL
InsertInto_AppendsBeforeRaising(rows, df) ==
    IF Len(df.columns) # Len(TableColumns)
    THEN [error |-> "BinderException", rows |-> rows]
    ELSE IF \E j \in 1..Len(df.rows) : \E p \in 1..Len(TableColumns) :
                CastRows(df)[j][p] = CastError
         THEN [error |-> "ConversionException",
               rows |-> rows \o [j \in 1..Len(df.rows) |->
                                   [p \in 1..Len(TableColumns) |->
                                      IF CastRows(df)[j][p] = CastError THEN NULL
                                      ELSE CastRows(df)[j][p]]]]
         ELSE [error |-> "", rows |-> rows \o CastRows(df)]

\* INSERT INTO validated_crypto_data SELECT * FROM df: the columns of df
\* are matched to the table's by position. The statement either appends
\* every row or raises and appends none.
InsertInto(rows, df) ==
    IF Len(df.columns) # Len(TableColumns)
    THEN [error |-> "BinderException", rows |-> rows]
    ELSE IF \E j \in 1..Len(df.rows) : \E p \in 1..Len(TableColumns) :
                CastRows(df)[j][p] = CastError
         THEN [error |-> "ConversionException", rows |-> rows]
         ELSE [error |-> "", rows |-> rows \o CastRows(df)]

\* ------------------------------------------------------------ the pipeline

\* The two schedules of schedules.py, each starting runs of crypto_pipeline_job
Runs == {"crypto_pipeline_15min_schedule", "crypto_pipeline_test_schedule"}

VARIABLES
    pc,               \* where each run stands
    source,           \* the source of each run: "live", "synthetic" or "none"
    raw_data,         \* the batch the validator works on
    idx,              \* the position (from 1) of the validator's loop
    valid_records,    \* validate_crypto_data_asset's valid list
    invalid_records,  \* validate_crypto_data_asset's rejection list
    df,               \* the DataFrame of store_validated_crypto_data
    con,              \* the DuckDB connection of each run: "none", "open", "closed"
    before,           \* the table as it was when store was entered
    result,           \* what a finished run reports
    table,            \* data/crypto_data.duckdb: validated_crypto_data
    probe,            \* a record handed to CryptoPrice.model_validate on its own
    verdict,          \* the outcome of that validation
    response,         \* the requests each run has made and the body of the answer
    upstream          \* what the API answers with: a fixed list, or any list

vars == <<pc, source, raw_data, idx, valid_records, invalid_records, df, con,
          before, result, table, probe, verdict, response, upstream>>

NoTable == [exists |-> FALSE, columns |-> << >>, rows |-> << >>]

NoFrame == [columns |-> << >>, rows |-> << >>]

NoResult == [status |-> "", error |-> "", phase |-> "", counted |-> FALSE,
             total |-> -1, valid |-> 0, invalid |-> 0, appended |-> 0]

NoResponse == [calls |-> 0, body |-> "none"]

\* The API answers every request with whatever list it has at the time
AnyList == [fixed |-> FALSE, data |-> << >>]

\* The lists of records a request can be answered with
Served == IF upstream.fixed THEN {upstream.data} ELSE Payloads

InitPipeline ==
    /\ pc = [r \in Runs |-> "idle"]
    /\ source = [r \in Runs |-> "none"]
    /\ raw_data = [r \in Runs |-> << >>]
    /\ idx = [r \in Runs |-> 0]
    /\ valid_records = [r \in Runs |-> << >>]
    /\ invalid_records = [r \in Runs |-> << >>]
    /\ df = [r \in Runs |-> NoFrame]
    /\ con = [r \in Runs |-> "none"]
    /\ before = [r \in Runs |-> NoTable]
    /\ result = [r \in Runs |-> NoResult]
    /\ table = NoTable
    /\ response = [r \in Runs |-> NoResponse]

NoVerdict == [done |-> FALSE, errors |-> << >>]

Init ==
    /\ InitPipeline
    /\ probe = << >>
    /\ verdict = NoVerdict
    /\ upstream = AnyList

\* One run at a time: a run starts when no other run is under way
OthersQuiet(r) == \A q \in Runs \ {r} : pc[q] \in {"idle", "done", "failed"}

StorePhases == {"connected", "created", "inserted", "reported"}

\* The run ends: its locals go, its report stays. total is the length of
\* the batch the source obtained (-1 when it obtained none), counted tells
\* that the validator reported its counts, appended is the growth of the
\* table since store was entered.
Finish(r, status, error, phase, total, newTable) ==
    /\ pc' = [pc EXCEPT ![r] = IF status = "success" THEN "done" ELSE "failed"]
    /\ result' = [result EXCEPT ![r] =
          [status |-> status, error |-> error, phase |-> phase,
           counted |-> pc[r] \in {"validated"} \cup StorePhases,
           total |-> total,
           valid |-> Len(valid_records[r]),
           invalid |-> Len(invalid_records[r]),
           appended |-> IF pc[r] \in StorePhases
                        THEN Len(newTable.rows) - Len(before[r].rows) ELSE 0]]
    /\ raw_data' = [raw_data EXCEPT ![r] = << >>]
    /\ idx' = [idx EXCEPT ![r] = 0]
    /\ valid_records' = [valid_records EXCEPT ![r] = << >>]
    /\ invalid_records' = [invalid_records EXCEPT ![r] = << >>]
    /\ df' = [df EXCEPT ![r] = NoFrame]
    /\ before' = [before EXCEPT ![r] = NoTable]
    /\ table' = newTable

\* The bodies response.json() can return that are no list: null, an object
\* with members (an error report), the empty object
NonListBodies == {"null", "object", "empty object"}

\* The outcome of fetch_crypto_data for a body that is no list: len(None)
\* raises; the keys of an object are validated as records and fail both
\* validations; the empty object has nothing to validate and is returned
NonListOutcome(body) ==
    CASE body = "null" -> "TypeError"
      [] body = "object" -> "ValueError"
      [] body = "empty object" -> ""

\* The request of run r has been made and has answered with body
Requested(r, body) ==
    response' = [response EXCEPT ![r] = [calls |-> @.calls + 1, body |-> body]]

\* fetch_crypto_data: one request; a request that fails, a payload that
\* fails both validations or a sample line that cannot be formatted raises
Fetch(r) ==
    /\ pc[r] = "idle"
    /\ source' = [source EXCEPT ![r] = "live"]
    /\ UNCHANGED <<con, probe, verdict, upstream>>
    /\ \/ /\ Requested(r, "none")
          /\ Finish(r, "failed", "RequestException", "fetch", -1, table)
       \/ \E body \in NonListBodies :
            /\ Requested(r, body)
            /\ IF NonListOutcome(body) # ""
               THEN Finish(r, "failed", NonListOutcome(body), "fetch", -1, table)
               ELSE /\ raw_data' = [raw_data EXCEPT ![r] = << >>]
                    /\ pc' = [pc EXCEPT ![r] = "fetched"]
                    /\ UNCHANGED <<idx, valid_records, invalid_records, df, before,
                                   result, table>>
       \/ \E data \in Served :
            /\ Requested(r, "list")
            /\ IF FetchOutcome(data) # ""
               THEN Finish(r, "failed", FetchOutcome(data), "fetch", Len(data), table)
               ELSE /\ raw_data' = [raw_data EXCEPT ![r] = AddFetchedAt(data)]
                    /\ pc' = [pc EXCEPT ![r] = "fetched"]
                    /\ UNCHANGED <<idx, valid_records, invalid_records, df, before,
                                   result, table>>

\* A run of the job on the live source, started when no other run is under way
FetchLive(r) == OthersQuiet(r) /\ Fetch(r)

\* generate_test_crypto_data: the generated batch is validated and a
\* failure is raised again
GenerateSynthetic(r) ==
    /\ pc[r] = "idle"
    /\ OthersQuiet(r)
    /\ source' = [source EXCEPT ![r] = "synthetic"]
    /\ UNCHANGED <<con, probe, verdict, response, upstream>>
    /\ \E data \in SyntheticBatches :
         IF ~validate_crypto_data(data)
         THEN Finish(r, "failed", "ValidationError", "generate", Len(data), table)
         ELSE /\ raw_data' = [raw_data EXCEPT ![r] = data]
              /\ pc' = [pc EXCEPT ![r] = "fetched"]
              /\ UNCHANGED <<idx, valid_records, invalid_records, df, before,
                             result, table>>

\* data_source with no input taken for an empty synthetic batch
data_source_FallsBack(live_given, synthetic_given) ==
    IF live_given THEN "CoinGecko API" ELSE "Synthetic Data"

\* The choice of the input at the head of validate_crypto_data_asset: the
\* live batch when it is given, else the synthetic one, else ValueError
data_source(live_given, synthetic_given) ==
    IF live_given THEN "CoinGecko API"
    ELSE IF synthetic_given THEN "Synthetic Data" ELSE "ValueError"

\* validate_crypto_data_asset called with neither input: ValueError
ValidateNoSource(r) ==
    /\ pc[r] = "idle"
    /\ OthersQuiet(r)
    /\ source' = [source EXCEPT ![r] = "none"]
    /\ UNCHANGED <<con, probe, verdict, response, upstream>>
    /\ IF data_source(FALSE, FALSE) = "ValueError"
       THEN Finish(r, "failed", "ValueError", "validate", -1, table)
       ELSE /\ raw_data' = [raw_data EXCEPT ![r] = << >>]
            /\ pc' = [pc EXCEPT ![r] = "fetched"]
            /\ UNCHANGED <<idx, valid_records, invalid_records, df, before,
                           result, table>>

\* validate_crypto_data_asset up to the loop
ValidateBegin(r) ==
    /\ pc[r] = "fetched"
    /\ pc' = [pc EXCEPT ![r] = "validating"]
    /\ idx' = [idx EXCEPT ![r] = 1]
    /\ valid_records' = [valid_records EXCEPT ![r] = << >>]
    /\ invalid_records' = [invalid_records EXCEPT ![r] = << >>]
    /\ UNCHANGED <<source, raw_data, df, con, before, result, table, probe, verdict, response, upstream>>

\* ValidateOne with a rejected record put on the valid list as well
ValidateOne_KeepsRejected(lists, j, record) ==
    IF model_validate(record) = << >>
    THEN [valid |-> Append(lists.valid, record), invalid |-> lists.invalid]
    ELSE [valid |-> Append(lists.valid, record),
          invalid |-> Append(lists.invalid,
                        [record_index |-> j - 1, record_data |-> record,
                         errors |-> model_validate(record)])]

\* The coerced form of an accepted record, validated_record.model_dump():
\* the fields of the model in declaration order, an optional field the
\* record lacks as None, keys that are no field dropped
model_dump(record) ==
    [j \in 1..Len(CryptoPriceFields) |->
        [k |-> CryptoPriceFields[j].name,
         v |-> IF Has(record, CryptoPriceFields[j].name)
               THEN Get(record, CryptoPriceFields[j].name) ELSE None]]

\* ValidateOne with the coerced form put on the valid list
ValidateOne_AppendsModel(lists, j, record) ==
    IF model_validate(record) = << >>
    THEN [valid |-> Append(lists.valid, model_dump(record)), invalid |-> lists.invalid]
    ELSE [valid |-> lists.valid,
          invalid |-> Append(lists.invalid,
                        [record_index |-> j - 1, record_data |-> record,
                         errors |-> model_validate(record)])]

\* ValidateOne with the rejection entry lost
ValidateOne_DropsRejection(lists, j, record) ==
    IF model_validate(record) = << >>
    THEN [valid |-> Append(lists.valid, record), invalid |-> lists.invalid]
    ELSE lists

\* The body of the loop for the record at position j (index j - 1): the
\* raw record goes to the valid list, or a rejection entry to the other
ValidateOne(lists, j, record) ==
    IF model_validate(record) = << >>
    THEN [valid |-> Append(lists.valid, record), invalid |-> lists.invalid]
    ELSE [valid |-> lists.valid,
          invalid |-> Append(lists.invalid,
                        [record_index |-> j - 1, record_data |-> record,
                         errors |-> model_validate(record)])]

\* LoopNext leaving the loop at the first record that fails
LoopNext_StopsAtFailure(j, record, total) ==
    IF model_validate(record) = << >> THEN j + 1 ELSE total + 1

\* The position the loop goes to after the record at position j
LoopNext(j, record, total) == j + 1

ValidateRecord(r) ==
    /\ pc[r] = "validating"
    /\ idx[r] <= Len(raw_data[r])
    /\ LET lists == ValidateOne([valid |-> valid_records[r], invalid |-> invalid_records[r]],
                                idx[r], raw_data[r][idx[r]])
       IN /\ valid_records' = [valid_records EXCEPT ![r] = lists.valid]
          /\ invalid_records' = [invalid_records EXCEPT ![r] = lists.invalid]
    /\ idx' = [idx EXCEPT ![r] = LoopNext(idx[r], raw_data[r][idx[r]], Len(raw_data[r]))]
    /\ UNCHANGED <<pc, source, raw_data, df, con, before, result, table, probe, verdict, response, upstream>>

\* The success rate the summary logs, in percent (rounded down); the
\* division raises ZeroDivisionError for total_records = 0
SuccessRate(valid, total) ==
    IF total = 0 THEN [error |-> "ZeroDivisionError", rate |-> 0]
    ELSE [error |-> "", rate |-> (valid * 100) \div total]

\* The summary after the loop, and the return of the valid list
ValidateSummary(r) ==
    /\ pc[r] = "validating"
    /\ idx[r] > Len(raw_data[r])
    /\ UNCHANGED <<source, con, probe, verdict, response, upstream>>
    /\ IF SuccessRate(Len(valid_records[r]), Len(raw_data[r])).error # ""
       THEN Finish(r, "failed",
                   SuccessRate(Len(valid_records[r]), Len(raw_data[r])).error,
                   "validate", Len(raw_data[r]), table)
       ELSE /\ pc' = [pc EXCEPT ![r] = "validated"]
            /\ UNCHANGED <<raw_data, idx, valid_records, invalid_records, df, before,
                           result, table>>

\* NothingToStore with the guard gone
NothingToStore_Never(records) == FALSE

\* "if not validate_crypto_data_asset": the list handed to store is empty
NothingToStore(records) == records = << >>

\* StoreMayEnter holding a run back while another run is in store
StoreMayEnter_OneAtATime(others) == others \cap StorePhases = {}

\* What store waits for before it connects, given where the other runs
\* stand: nothing. It takes no lock and does not look at other runs.
StoreMayEnter(others) == TRUE

\* store_validated_crypto_data up to duckdb.connect: nothing to do for an
\* empty list, else the DataFrame is built and the connection opened
StoreBegin(r) ==
    /\ pc[r] = "validated"
    /\ StoreMayEnter({pc[q] : q \in Runs \ {r}})
    /\ UNCHANGED <<source, probe, verdict, response, upstream>>
    /\ IF NothingToStore(valid_records[r])
       THEN /\ Finish(r, "success", "", "store", Len(raw_data[r]), table)
            /\ UNCHANGED con
       ELSE \/ /\ Finish(r, "failed", "IOException", "connect", Len(raw_data[r]), table)
               /\ UNCHANGED con
            \/ /\ df' = [df EXCEPT ![r] = PrepareDataFrame(valid_records[r])]
               /\ before' = [before EXCEPT ![r] = table]
               /\ con' = [con EXCEPT ![r] = "open"]
               /\ pc' = [pc EXCEPT ![r] = "connected"]
               /\ UNCHANGED <<raw_data, idx, valid_records, invalid_records, result, table>>

\* CREATE TABLE IF NOT EXISTS: an existing table is left as it is
CreateTableIfNotExists(t) ==
    IF t.exists THEN t ELSE [exists |-> TRUE, columns |-> TableColumns, rows |-> << >>]

StoreCreateTable(r) ==
    /\ pc[r] = "connected"
    /\ UNCHANGED <<source, con, probe, verdict, response, upstream>>
    /\ \/ Finish(r, "failed", "IOException", "create", Len(raw_data[r]), table)
       \/ /\ table' = CreateTableIfNotExists(table)
          /\ pc' = [pc EXCEPT ![r] = "created"]
          /\ UNCHANGED <<raw_data, idx, valid_records, invalid_records, df, before, result>>

StoreInsert(r) ==
    /\ pc[r] = "created"
    /\ UNCHANGED <<source, con, probe, verdict, response, upstream>>
    /\ \/ Finish(r, "failed", "IOException", "insert", Len(raw_data[r]), table)
       \/ LET res == InsertInto(table.rows, df[r]) IN
          IF res.error # ""
          THEN Finish(r, "failed", res.error, "insert", Len(raw_data[r]),
                      [table EXCEPT !.rows = res.rows])
          ELSE /\ table' = [table EXCEPT !.rows = res.rows]
               /\ pc' = [pc EXCEPT ![r] = "inserted"]
               /\ UNCHANGED <<raw_data, idx, valid_records, invalid_records, df, before,
                              result>>

ColumnIndex(name) == CHOOSE p \in 1..Len(TableColumns) : TableColumns[p].name = name

\* The sample lines of the log: .upper() of the symbol and the formats of
\* the price and of the market cap of the first three rows raise on NULL
SampleRowsRaise(rows) ==
    \E j \in 1..Len(rows) :
        /\ j <= 3
        /\ \E c \in {"symbol", "current_price", "market_cap"} :
              rows[j][ColumnIndex(c)] = NULL

\* SELECT COUNT(*) and the sample rows
StoreReport(r) ==
    /\ pc[r] = "inserted"
    /\ UNCHANGED <<source, con, probe, verdict, response, upstream>>
    /\ \/ Finish(r, "failed", "IOException", "count", Len(raw_data[r]), table)
       \/ IF SampleRowsRaise(table.rows)
          THEN Finish(r, "failed", "TypeError", "count", Len(raw_data[r]), table)
          ELSE /\ pc' = [pc EXCEPT ![r] = "reported"]
               /\ UNCHANGED <<raw_data, idx, valid_records, invalid_records, df, before,
                              result, table>>

\* con.close() and the return of the path
StoreClose(r) ==
    /\ pc[r] = "reported"
    /\ UNCHANGED <<source, probe, verdict, response, upstream>>
    /\ \/ /\ Finish(r, "failed", "IOException", "close", Len(raw_data[r]), table)
          /\ UNCHANGED con
       \/ /\ Finish(r, "success", "", "store", Len(raw_data[r]), table)
          /\ con' = [con EXCEPT ![r] = "closed"]

Next ==
    \E r \in Runs :
        \/ FetchLive(r)
        \/ GenerateSynthetic(r)
        \/ ValidateNoSource(r)
        \/ ValidateBegin(r)
        \/ ValidateRecord(r)
        \/ ValidateSummary(r)
        \/ StoreBegin(r)
        \/ StoreCreateTable(r)
        \/ StoreInsert(r)
        \/ StoreReport(r)
        \/ StoreClose(r)

Spec == Init /\ [][Next]_vars

\* --------------------------------------------------- overlapping runs
\* Both schedules start runs of crypto_pipeline_job, which selects the live
\* source, and nothing in the repository keeps a run from starting while
\* another is under way.

\* The schedules fire together, so the requests of the two runs reach the
\* API at the same time and a request that is answered gets the same list
InitOverlap ==
    /\ InitPipeline
    /\ probe = << >>
    /\ verdict = NoVerdict
    /\ \E data \in Payloads : upstream = [fixed |-> TRUE, data |-> data]

NextOverlap ==
    \E r \in Runs :
        \/ Fetch(r)
        \/ ValidateBegin(r)
        \/ ValidateRecord(r)
        \/ ValidateSummary(r)
        \/ StoreBegin(r)
        \/ StoreCreateTable(r)
        \/ StoreInsert(r)
        \/ StoreReport(r)
        \/ StoreClose(r)

SpecOverlap == InitOverlap /\ [][NextOverlap]_vars

\* ------------------------------------------- the schema on single records

\* Changes to a well-formed record: a key set to a value, or a key removed
Changes ==
    {[k |-> "id", v |-> x] : x \in {EmptyStr, None, PyInt(7)}}
    \cup {[k |-> "symbol", v |-> PyStr(x)] :
            x \in {<<"B", "T", "C">>, <<"b", "t", "c", "-", "1">>, << >>,
                   <<"b", "t", "c", "\n">>, <<"b", "2">>, <<"\n">>}}
    \cup {[k |-> "name", v |-> x] : x \in {EmptyStr, None}}
    \cup {[k |-> "image", v |-> x] : x \in {EmptyStr, PyInt(1)}}
    \cup {[k |-> "current_price", v |-> x] :
            x \in {PyInt(-5), PyInt(0), PyFloat(-1), PyFloat(0), None,
                   PyStr(<<"a", "b", "c">>)}}
    \cup {[k |-> "market_cap", v |-> x] : x \in {PyInt(-1), PyInt(0), PyFloat(3)}}
    \cup {[k |-> "market_cap_rank", v |-> x] :
            x \in {PyInt(0), PyInt(-1), PyInt(1), PyFloat(1), None}}
    \cup {[k |-> "total_volume", v |-> x] : x \in {PyInt(-1), PyInt(0)}}
    \cup {[k |-> "high_24h", v |-> x] : x \in {PyFloat(-1), PyInt(0)}}
    \cup {[k |-> "low_24h", v |-> x] : x \in {PyInt(-1), PyFloat(0)}}
    \cup {[k |-> "price_change_24h", v |-> x] : x \in {PyInt(-5000)}}
    \cup {[k |-> "price_change_percentage_24h", v |-> x] :
            x \in {PyInt(1500), PyInt(999), PyInt(1000), PyInt(-1000), PyInt(1001),
                   PyInt(-1001), PyFloat(1000), PyFloat(999), PyFloat(-1001),
                   PyFloat(-1000)}}
    \cup {[k |-> "market_cap_change_percentage_24h", v |-> x] :
            x \in {PyInt(1500), PyInt(-1000), PyInt(-1001)}}
    \cup {[k |-> "fully_diluted_valuation", v |-> x] :
            x \in {None, PyFloat(5), PyInt(-5)}}
    \cup {[k |-> "total_supply", v |-> x] : x \in {None, PyStr(<<"a">>)}}
    \cup {[k |-> "roi", v |-> x] : x \in {None, PyInt(3)}}
    \cup {[k |-> "ath_date", v |-> x] : x \in {EmptyStr, PyInt(2021)}}
    \cup {[k |-> "fetched_at", v |-> x] : x \in {None, PyInt(2024)}}
    \cup {[k |-> "sparkline_in_7d", v |-> PyDict(2)]}
    \cup {[k |-> key, v |-> [t |-> "del", s |-> << >>, n |-> 0]] :
            key \in {"id", "image", "current_price", "market_cap_rank",
                     "price_change_percentage_24h", "fully_diluted_valuation",
                     "roi", "last_updated", "fetched_at"}}

Change(record, c) ==
    IF c.v.t = "del" THEN DelItem(record, c.k) ELSE SetItem(record, c.k, c.v)

WellFormedRecord == BuildRecord(SourceKeys, 1, 1, {})

\* The records handed to the schema: a well-formed record with at most two
\* of its keys changed
ProbeRecords ==
    {WellFormedRecord}
    \cup {Change(WellFormedRecord, c) : c \in Changes}
    \cup UNION {{Change(Change(WellFormedRecord, c), d) :
                    d \in {e \in Changes : e.k # c.k}} : c \in Changes}

InitSchema ==
    /\ InitPipeline
    /\ probe \in ProbeRecords
    /\ verdict = NoVerdict
    /\ upstream = AnyList

\* CryptoPrice.model_validate(probe)
SchemaValidate ==
    /\ ~verdict.done
    /\ verdict' = [done |-> TRUE, errors |-> model_validate(probe)]
    /\ UNCHANGED <<pc, source, raw_data, idx, valid_records, invalid_records, df,
                   con, before, result, table, probe, response, upstream>>

NextSchema == SchemaValidate

SpecSchema == InitSchema /\ [][NextSchema]_vars

\* ==================================================================
\* Properties
\* ==================================================================

\* The positions (from 0) the rejection list of run r names
RejectedIndices(r) == {invalid_records[r][j].record_index : j \in 1..Len(invalid_records[r])}

\* The number of records the validator of run r has gone through
Processed(r) == IF pc[r] = "validating" THEN idx[r] - 1 ELSE Len(raw_data[r])

AfterValidation == {"validated"} \cup StorePhases

\* C1: every record of the batch ends up in exactly one of the valid list
\* and the rejection list: the rejection entries name distinct positions of
\* the batch, and valid_count + invalid_count = total_count once validation
\* has finished (and = the number of records gone through while it runs),
\* also in the counts a finished run reports.
C1_CountsAddUp ==
    \A r \in Runs :
        /\ pc[r] \in {"validating"} \cup AfterValidation =>
              /\ Len(valid_records[r]) + Len(invalid_records[r]) = Processed(r)
              /\ Cardinality(RejectedIndices(r)) = Len(invalid_records[r])
              /\ RejectedIndices(r) \subseteq 0..(Len(raw_data[r]) - 1)
        /\ result[r].counted => result[r].valid + result[r].invalid = result[r].total

\* C1 witness: validation has finished with records on both lists
C1_Witness ==
    \E r \in Runs :
        /\ pc[r] = "validated"
        /\ Len(valid_records[r]) > 0
        /\ Len(invalid_records[r]) > 0

\* C2: given an empty batch, the validator completes normally (total_count
\* = 0, success_rate = 0, no division by zero) and the storage step then
\* writes nothing.
C2_EmptyBatchCompletes ==
    [][\A r \in Runs :
          /\ (pc[r] = "validating" /\ raw_data[r] = << >> /\ pc'[r] # pc[r]) =>
                /\ pc'[r] = "validated"
                /\ SuccessRate(Len(valid_records[r]), Len(raw_data[r])).rate = 0
          /\ (pc[r] = "validated" /\ raw_data[r] = << >>) => table' = table]_vars

\* C3: a run whose source obtained a batch of records fails only on a
\* storage failure: records that violate field constraints never make the
\* run fail.
C3_ViolationsNeverFailRun ==
    \A r \in Runs :
        (result[r].status = "failed" /\ result[r].total > 0) =>
            result[r].phase \in {"connect", "create", "insert", "count", "close"}

\* C4: the validator goes through every record on its own: the record at
\* each position gone through is on the valid list exactly when the schema
\* accepts it, whatever happened to the records before it; a rejection
\* entry holds the record of its position and that record's errors; once
\* validation has finished every position has been gone through; and the
\* validator raises no ValidationError.
C4_RecordsIndependent ==
    \A r \in Runs :
        /\ pc[r] \in {"validating"} \cup AfterValidation =>
              /\ Processed(r) \in 0..Len(raw_data[r])
              /\ \A j \in 1..Processed(r) :
                    Accepted(raw_data[r][j]) <=> (j - 1) \notin RejectedIndices(r)
              /\ \A j \in 1..Len(invalid_records[r]) :
                    LET e == invalid_records[r][j] IN
                    /\ e.record_data = raw_data[r][e.record_index + 1]
                    /\ e.errors = model_validate(e.record_data)
                    /\ e.errors # << >>
              /\ valid_records[r] =
                    SelectSeq(SubSeq(raw_data[r], 1, Processed(r)), Accepted)
        /\ result[r].phase = "validate" => result[r].error # "ValidationError"

\* C4 witness: validation has finished, a record was rejected and a record
\* after it was accepted
C4_Witness ==
    \E r \in Runs :
        /\ pc[r] = "validated"
        /\ \E j, h \in 1..Len(raw_data[r]) :
              /\ j < h
              /\ (j - 1) \in RejectedIndices(r)
              /\ raw_data[r][h] \in Range(valid_records[r])

\* Twice the number a value stands for
Twice(v) == IF v.t = "float" THEN 2 * v.n + 1 ELSE 2 * v.n

IsStrAt(record, key) == Has(record, key) /\ Get(record, key).t = "str"

IsNumberAt(record, key) == Has(record, key) /\ Get(record, key).t \in {"int", "float"}

IsIntAt(record, key) == Has(record, key) /\ Get(record, key).t = "int"

AbsentOrNone(record, key) == ~Has(record, key) \/ Get(record, key) = None

NonNegativeKeys == {"current_price", "market_cap", "total_volume", "high_24h", "low_24h"}

PercentageKeys == {"price_change_percentage_24h", "market_cap_change_percentage_24h"}

\* The constraints the data model is said to have, as the claim lists them:
\* id, symbol and name non-empty strings, symbol of the pattern, the five
\* amounts non-negative, the rank a positive integer, the percentages
\* within 1000 either way
ListedConstraints(record) ==
    /\ \A key \in {"id", "symbol", "name"} :
          IsStrAt(record, key) /\ Get(record, key).s # << >>
    /\ SymbolPattern(Get(record, "symbol").s)
    /\ \A key \in NonNegativeKeys :
          IsNumberAt(record, key) /\ Twice(Get(record, key)) >= 0
    /\ IsIntAt(record, "market_cap_rank") /\ Get(record, "market_cap_rank").n >= 1
    /\ \A key \in PercentageKeys :
          /\ IsNumberAt(record, key)
          /\ Twice(Get(record, key)) <= 2000
          /\ Twice(Get(record, key)) >= -2000

\* The constraints of the model as declared: every required field present
\* with a value of its type (a string may be empty), every optional field
\* absent, None or of its type, and the four validated constraints
DeclaredConstraints(record) ==
    /\ \A key \in {"id", "symbol", "name", "image", "ath_date", "atl_date", "last_updated"} :
          IsStrAt(record, key)
    /\ \A key \in {"current_price", "high_24h", "low_24h", "price_change_24h",
                   "price_change_percentage_24h", "market_cap_change_24h",
                   "market_cap_change_percentage_24h", "circulating_supply", "ath",
                   "ath_change_percentage", "atl", "atl_change_percentage"} :
          IsNumberAt(record, key)
    /\ \A key \in {"market_cap", "market_cap_rank", "total_volume"} : IsIntAt(record, key)
    /\ AbsentOrNone(record, "fully_diluted_valuation")
          \/ IsIntAt(record, "fully_diluted_valuation")
    /\ \A key \in {"total_supply", "max_supply"} :
          AbsentOrNone(record, key) \/ IsNumberAt(record, key)
    /\ AbsentOrNone(record, "roi") \/ Get(record, "roi").t = "dict"
    /\ AbsentOrNone(record, "fetched_at") \/ IsStrAt(record, "fetched_at")
    /\ SymbolPattern(Get(record, "symbol").s)
    /\ \A key \in NonNegativeKeys : Twice(Get(record, key)) >= 0
    /\ Get(record, "market_cap_rank").n >= 1
    /\ \A key \in PercentageKeys :
          Twice(Get(record, key)) <= 2000 /\ Twice(Get(record, key)) >= -2000

ExpectedCell(record, column) ==
    IF AbsentOrNone(record, column.name) THEN
        IF column.name \in datetime_cols THEN EmptyStr ELSE NULL
    ELSE IF column.name \in datetime_cols THEN NormalizeDate(Get(record, column.name))
         ELSE Cast(Get(record, column.name), column.type)

\* C6: the store step writes every record into the fixed column set: in
\* every row it appends, the value in each fixed column is the record's
\* value for that key (NULL for a missing optional key, a scalar string for
\* roi), and the insert does not fail over the keys of the records or
\* their order.
C6_RowsHoldRecordValues ==
    [][\A r \in Runs :
          /\ (pc[r] = "created" /\ pc'[r] = "inserted") =>
                \A j \in 1..Len(valid_records[r]) : \A p \in 1..Len(TableColumns) :
                    table'.rows[Len(table.rows) + j][p]
                        = ExpectedCell(valid_records[r][j], TableColumns[p])
          /\ (pc[r] = "created" /\ pc'[r] = "failed") =>
                result'[r].error = "IOException"]_vars

\* C7: store called twice in succession on a fresh location, with m and n
\* valid records and no input/output failure, leaves a table of exactly
\* m + n rows, with the columns of its creation.
C7_TwoStoresAddUp ==
    (\A r \in Runs : result[r].counted /\ result[r].error # "IOException") =>
        /\ table.exists => table.columns = TableColumns
        /\ \E r1, r2 \in Runs :
              /\ r1 # r2
              /\ Len(table.rows) = result[r1].valid + result[r2].valid

\* The rows of the table when run r entered store
EntryRows(r) == IF pc[r] = "validated" THEN table.rows ELSE before[r].rows

InStore(r) == pc[r] \in {"validated"} \cup StorePhases /\ valid_records[r] # << >>

\* C8 as claimed: whenever a step of store fails, the table holds exactly
\* the rows it held before the call.
C8_FailureLeavesRows ==
    [][\A r \in Runs :
          (InStore(r) /\ pc'[r] = "failed") => table'.rows = EntryRows(r)]_vars

\* C8 amended: a failure of any step of store is raised and the run counts
\* as failed; the table then holds exactly the rows it held before the call
\* when the failing step is the open, the create or the insert, and all the
\* provided records appended when the failing step comes after the insert
\* (the count, the sample query or the close); a store that succeeds has
\* appended all of them. At no step does the table hold only some of the
\* provided records.
C8_AllOrNothing ==
    [][\A r \in Runs :
          InStore(r) =>
             /\ \/ table'.rows = EntryRows(r)
                \/ table'.rows = EntryRows(r) \o CastRows(PrepareDataFrame(valid_records[r]))
             /\ pc'[r] = "failed" =>
                   /\ result'[r].status = "failed" /\ result'[r].error # ""
                   /\ pc[r] \in {"validated", "connected", "created"} =>
                         table'.rows = EntryRows(r)
                   /\ pc[r] \in {"inserted", "reported"} =>
                         /\ table'.rows = EntryRows(r)
                               \o CastRows(PrepareDataFrame(valid_records[r]))
                         /\ result'[r].appended = Len(valid_records[r])
             /\ pc'[r] = "done" =>
                   /\ table'.rows = EntryRows(r)
                         \o CastRows(PrepareDataFrame(valid_records[r]))
                   /\ result'[r].appended = Len(valid_records[r])]_vars

\* C8 witness: a store has failed at the close with its records appended
C8_Witness ==
    \E r \in Runs :
        /\ pc[r] = "failed"
        /\ result[r].phase = "close"
        /\ result[r].appended > 0
        /\ result[r].appended = result[r].valid

C10_OnlyValidPersisted ==
    [][table'.rows # table.rows =>
          \E r \in Runs :
              /\ pc[r] = "created"
              /\ table'.rows = table.rows \o CastRows(PrepareDataFrame(valid_records[r]))
              /\ \A j \in 1..Len(valid_records[r]) :
                    /\ Accepted(valid_records[r][j])
                    /\ valid_records[r][j] \in Range(raw_data[r])
              /\ Len(table'.rows) - Len(table.rows)
                    = Cardinality({j \in 1..Len(raw_data[r]) : Accepted(raw_data[r][j])})]_vars

\* C10 witness: rows have been inserted by a run that rejected a record
C10_Witness ==
    \E r \in Runs :
        /\ pc[r] = "inserted"
        /\ Len(invalid_records[r]) > 0
        /\ Len(table.rows) > Len(before[r].rows)

\* The request of run r failed or answered with a body that is no list of
\* records
SourceFailed(r) == response[r].calls > 0 /\ response[r].body # "list"

C12_NoSourceFailsAtOnce ==
    [][\A r \in Runs :
          (pc[r] = "idle" /\ source'[r] = "none" /\ (pc'[r] # "idle" \/ result'[r] # result[r])) =>
              /\ pc'[r] = "failed"
              /\ result'[r].status = "failed"
              /\ result'[r].error = "ValueError"
              /\ result'[r].phase = "validate"
              /\ ~result'[r].counted
              /\ result'[r].valid = 0 /\ result'[r].invalid = 0
              /\ result'[r].appended = 0
              /\ raw_data'[r] = << >> /\ idx'[r] = 0
              /\ table' = table
              /\ con' = con
              /\ response' = response]_vars

\* C12 witness: a run without a source has failed with ValueError and the
\* rows an earlier run stored are in the table
C12_Witness ==
    \E r \in Runs :
        /\ pc[r] = "failed"
        /\ source[r] = "none"
        /\ result[r].error = "ValueError"
        /\ result[r].phase = "validate"
        /\ Len(table.rows) > 0

\* C13: end to end with the synthetic source: whatever optional keys the
\* generated records carry, a run that meets no input/output failure
\* succeeds with every generated record valid and the table grown by the
\* number of generated records.
C13_SyntheticRunStoresAll ==
    \A r \in Runs :
        (/\ source[r] = "synthetic"
         /\ pc[r] \in {"done", "failed"}
         /\ result[r].error # "IOException") =>
            /\ result[r].status = "success"
            /\ result[r].valid = GenCount
            /\ result[r].invalid = 0
            /\ result[r].appended = GenCount

\* A record of the API's shape that meets every declared constraint
WellFormed(record) == Keys(record) = Range(SourceKeys) /\ DeclaredConstraints(record)

\* A record that is well-formed but for a market_cap_rank of -1 or 0
BadRankOnly(record) ==
    /\ Has(record, "market_cap_rank")
    /\ Get(record, "market_cap_rank") \in {PyInt(-1), PyInt(0)}
    /\ WellFormed(SetItem(record, "market_cap_rank", PyInt(1)))

\* The positions of the batch that hold such a record
BadRankPositions(batch) == {j \in 1..Len(batch) : BadRankOnly(batch[j])}

\* Exactly one record of the batch has the bad rank, the others are well-formed
OneBadRank(batch) ==
    /\ Cardinality(BadRankPositions(batch)) = 1
    /\ \A j \in 1..Len(batch) : j \in BadRankPositions(batch) \/ WellFormed(batch[j])

\* C14: market_cap_rank must be a positive integer: for a batch in which
\* exactly one record has market_cap_rank = -1 or 0 and the others are
\* well-formed, validation ends with all records but one valid and one
\* rejection entry, which is for that record and whose only diagnostic
\* names market_cap_rank with the offending value; the run fails on an
\* input/output failure only, and a run that completes reports success
\* with these counts.
C14_BadRankRejectedAlone ==
    [][\A r \in Runs :
          OneBadRank(raw_data[r]) =>
             /\ pc[r] \in AfterValidation =>
                   /\ Len(valid_records[r]) = Len(raw_data[r]) - 1
                   /\ Len(invalid_records[r]) = 1
                   /\ LET e == invalid_records[r][1] IN
                      /\ e.record_index + 1 \in BadRankPositions(raw_data[r])
                      /\ Len(e.errors) = 1
                      /\ e.errors[1].field = "market_cap_rank"
                      /\ e.errors[1].input = Get(e.record_data, "market_cap_rank")
                      /\ e.errors[1].msg = "Value error, Market cap rank must be positive"
             /\ pc'[r] = "failed" => result'[r].error = "IOException"
             /\ pc'[r] = "done" =>
                   /\ result'[r].status = "success"
                   /\ result'[r].valid = result'[r].total - 1
                   /\ result'[r].invalid = 1]_vars

\* C14 witness: a run whose batch has one record of rank -1 or 0 beside a
\* well-formed one has stored the well-formed one
C14_Witness ==
    \E r \in Runs :
        /\ pc[r] = "reported"
        /\ Len(raw_data[r]) > 1
        /\ OneBadRank(raw_data[r])
        /\ Len(table.rows) = Len(before[r].rows) + Len(raw_data[r]) - 1

\* The positions among the first n of the batch that the schema accepts
AcceptedPositions(batch, n) == {j \in 1..n : Accepted(batch[j])}

\* The i-th smallest of a set of positions
NthOf(positions, i) ==
    CHOOSE j \in positions : Cardinality({h \in positions : h <= j}) = i

\* C15: while the validator runs and when it returns, the valid list holds
\* the raw records, in the order of the batch: it has one entry for every
\* accepted record gone through, and its i-th entry is the i-th accepted
\* record of the batch exactly as the source
\* handed it over, key for key in the same order, keys that are no field
\* of the model included.
C15_ValidListIsRawSubsequence ==
    \A r \in Runs :
        pc[r] \in {"validating", "validated"} =>
            LET positions == AcceptedPositions(raw_data[r], Processed(r)) IN
            /\ Len(valid_records[r]) = Cardinality(positions)
            /\ \A i \in 1..Len(valid_records[r]) :
                  valid_records[r][i] = raw_data[r][NthOf(positions, i)]

\* C15 witness: validation has finished with two different records on the
\* valid list, the first carrying a key that is no field of the model, so
\* that it differs from its coerced form
C15_Witness ==
    \E r \in Runs :
        /\ pc[r] = "validated"
        /\ Len(valid_records[r]) = 2
        /\ valid_records[r][1] # valid_records[r][2]
        /\ ~(Keys(valid_records[r][1]) \subseteq Range(SourceKeys))
        /\ model_dump(valid_records[r][1]) # valid_records[r][1]

\* The record violates the constraint of field f: a required field is
\* missing or None, the value is not of the declared type, or the value
\* breaks the rule of the field
Violates(record, f) ==
    IF ~Has(record, f.name) THEN f.required
    ELSE LET v == Get(record, f.name) IN
         IF v = None THEN f.required
         ELSE \/ f.kind = "str" /\ v.t # "str"
              \/ f.kind = "float" /\ v.t \notin {"int", "float"}
              \/ f.kind = "int" /\ v.t # "int"
              \/ f.kind = "dict" /\ v.t # "dict"
              \/ f.name = "symbol" /\ v.t = "str" /\ ~SymbolPattern(v.s)
              \/ f.name \in NonNegativeKeys /\ Twice(v) < 0
              \/ f.name = "market_cap_rank" /\ Twice(v) <= 0
              \/ f.name \in PercentageKeys /\ (Twice(v) > 2000 \/ Twice(v) < -2000)

ViolatedFields(record) ==
    {CryptoPriceFields[j].name : j \in {h \in 1..Len(CryptoPriceFields) :
                                          Violates(record, CryptoPriceFields[h])}}

\* C16: diagnostics are exhaustive per record: while the validator runs and
\* when it returns, every rejection entry holds
\* the index of its record in the batch and the raw record itself, and one
\* diagnostic for every field whose constraint the record violates, no
\* more and no fewer: a record that violates k field constraints has k
\* diagnostics, each with the field, the offending value (the value of the
\* field, or the record when the field is missing) and a reason.
C16_DiagnosticsExhaustive ==
    \A r \in Runs :
        pc[r] \in {"validating", "validated"} =>
            \A j \in 1..Len(invalid_records[r]) :
                LET e == invalid_records[r][j]
                    violated == ViolatedFields(e.record_data)
                IN /\ e.record_index \in 0..(Len(raw_data[r]) - 1)
                   /\ e.record_data = raw_data[r][e.record_index + 1]
                   /\ Len(e.errors) = Cardinality(violated)
                   /\ {e.errors[i].field : i \in 1..Len(e.errors)} = violated
                   /\ \A i \in 1..Len(e.errors) :
                         /\ e.errors[i].msg # ""
                         /\ e.errors[i].input =
                               IF Has(e.record_data, e.errors[i].field)
                               THEN Get(e.record_data, e.errors[i].field)
                               ELSE PyDict(Len(e.record_data))

\* C16 witness: the second record of a batch has been rejected with two
\* diagnostics, for two different fields
C16_Witness ==
    \E r \in Runs :
        /\ pc[r] = "validated"
        /\ \E j \in 1..Len(invalid_records[r]) :
              LET e == invalid_records[r][j] IN
              /\ e.record_index = 1
              /\ Len(e.errors) = 2
              /\ e.errors[1].field # e.errors[2].field

\* The fields the diagnostics of the verdict name
DiagnosedFields == {verdict.errors[i].field : i \in 1..Len(verdict.errors)}

\* C17: a percentage field that holds a number is accepted (draws no
\* diagnostic) exactly when abs(value) <= 1000: 1500 is rejected, 999 is
\* accepted, and so are the boundary values 1000 and -1000; a record that
\* is well-formed but for its percentages is accepted exactly when both
\* are within the limit.
C17_PercentageWithinLimit ==
    verdict.done =>
        /\ \A key \in PercentageKeys :
              IsNumberAt(probe, key) =>
                 /\ key \notin DiagnosedFields
                       <=> (Twice(Get(probe, key)) <= 2 * PercentLimit
                            /\ Twice(Get(probe, key)) >= -2 * PercentLimit)
                 /\ Get(probe, key) = PyInt(1500) => key \in DiagnosedFields
                 /\ Get(probe, key) \in {PyInt(999), PyInt(1000), PyInt(-1000)} =>
                       key \notin DiagnosedFields
        /\ (\A key \in PercentageKeys : IsNumberAt(probe, key))
              /\ DiagnosedFields \subseteq PercentageKeys =>
                 (verdict.errors = << >>
                    <=> \A key \in PercentageKeys :
                           /\ Twice(Get(probe, key)) <= 2 * PercentLimit
                           /\ Twice(Get(probe, key)) >= -2 * PercentLimit)

\* C17 witness: a record with one percentage at 1000 and the other at
\* -1000 has been accepted
C17_Witness ==
    /\ verdict.done
    /\ verdict.errors = << >>
    /\ Get(probe, "price_change_percentage_24h") = PyInt(1000)
    /\ Get(probe, "market_cap_change_percentage_24h") = PyInt(-1000)

\* C18: in every row store appends, each of the date columns ath_date,
\* atl_date, last_updated and fetched_at holds a string: the
\* YYYY-MM-DD HH:MM:SS form of the record's value for that key when it
\* parses as a timestamp, the empty string when it does not or when the
\* record lacks the key.
C18_DateColumnsNormalised ==
    [][\A r \in Runs :
          (pc[r] = "created" /\ pc'[r] = "inserted") =>
              \A j \in 1..Len(valid_records[r]) : \A c \in datetime_cols :
                  LET cell == table'.rows[Len(table.rows) + j][ColumnIndex(c)] IN
                  /\ cell.t = "str"
                  /\ cell = IF Has(valid_records[r][j], c)
                            THEN NormalizeDate(Get(valid_records[r][j], c))
                            ELSE EmptyStr]_vars

\* C20: every connection store opens is closed before store returns or
\* raises: no run that has ended, in success or in failure, has left its
\* connection open.
C20_ConnectionClosedOnExit ==
    \A r \in Runs : pc[r] \in {"done", "failed"} => con[r] # "open"

====
